---------------------------- MODULE Spec2Model ----------------------------
(***************************************************************************)
(* A model of asaToFMCrouteMigrator.py: the FMCRouteConverter object, the  *)
(* run of main() from login to the end of deploy_routes, and the pure      *)
(* helpers (line splitting, object lookup, payload construction).          *)
(*                                                                         *)
(* A line of the routes file is a sequence of pieces: a piece is either a  *)
(* whitespace character or a maximal run of non-whitespace characters (a   *)
(* word).  Every string decomposes this way, so str.strip() and            *)
(* str.split() are modelled by what they do to the pieces.                 *)
(***************************************************************************)
EXTENDS Integers, Sequences, FiniteSets, TLC

(***************************************************************************)
(* Bounds of the model.                                                    *)
(***************************************************************************)
\* longest routes file of Spec, in lines
MaxLines == 3
\* longest routes file of SpecDeploy, in lines
MaxRoutes == 21

(***************************************************************************)
(* Program constants.                                                      *)
(***************************************************************************)
\* deploy_routes: `if i % 10 == 0: time.sleep(1)`
PauseEvery == 10
DEVICE_NAME == "FTD_NAME"
ROUTES_KEYWORD == "route"
HOST_MASK == "255.255.255.255"
\* Python's None, where the code passes or returns it
None == "None"
NoObject == [type |-> "None", id |-> "None", name |-> "None", value |-> "None"]

(***************************************************************************)
(* Strings: whitespace, str.strip(), str.split(), int(), str.lower().      *)
(***************************************************************************)
Whitespace == {" ", "\t", "\n"}

IsSpace(piece) == piece \in Whitespace

RECURSIVE LStrip(_)
LStrip(line) ==
    IF line # <<>> /\ IsSpace(Head(line)) THEN LStrip(Tail(line)) ELSE line

RECURSIVE RStrip(_)
RStrip(line) ==
    IF line # <<>> /\ IsSpace(line[Len(line)])
    THEN RStrip(SubSeq(line, 1, Len(line) - 1))
    ELSE line

\* line.strip()
Strip(line) == RStrip(LStrip(line))

IsWord(piece) == ~IsSpace(piece)

\* s.split(): the words between runs of whitespace, no empty strings
Split(s) == SelectSeq(s, IsWord)

\* int(token) on the metric tokens of the model: the decimal literals it
\* accepts, with their values; every other token raises ValueError
IntLiterals == [t \in {"1", "5", "20"} |->
                  CASE t = "1" -> 1 [] t = "5" -> 5 [] t = "20" -> 20]

ParsesAsInt(token) == token \in DOMAIN IntLiterals

IntOf(token) == IntLiterals[token]

\* confirm.lower() on the answers of the model
Lower(answer) ==
    CASE answer = "YES" -> "yes"
      [] answer = "Yes" -> "yes"
      [] OTHER -> answer

(***************************************************************************)
(* Python's order on the strings the missing-object report sorts.  All the *)
(* addresses of the model have the same length, so the order of two        *)
(* descriptors is the order of their kinds, then of their addresses, then  *)
(* of their masks.                                                         *)
(***************************************************************************)
AddrOrder == <<"10.1.1.0", "10.1.1.1", "10.2.2.2", "10.3.3.0", "10.9.9.9">>
MaskOrder == <<"255.255.255.0", "255.255.255.255">>

GatewayDescriptor(gateway) == "Gateway: " \o gateway

NetworkDescriptor(network, netmask) == "Network: " \o network \o "/" \o netmask

NetworkDescriptorsInOrder ==
    [k \in 1..(Len(AddrOrder) * Len(MaskOrder)) |->
        NetworkDescriptor(AddrOrder[((k - 1) \div Len(MaskOrder)) + 1],
                          MaskOrder[((k - 1) % Len(MaskOrder)) + 1])]

DescriptorOrder ==
    [k \in 1..Len(AddrOrder) |-> GatewayDescriptor(AddrOrder[k])]
        \o NetworkDescriptorsInOrder

\* sorted(missing_objects)
Sorted(S) == LET Keep(d) == d \in S IN SelectSeq(DescriptorOrder, Keep)


(***************************************************************************)
(* The inputs of the model: the lines a routes file is made of, and the    *)
(* answers of the FMC to the two object listings.                          *)
(***************************************************************************)
RouteLine(interface, network, netmask, gateway, metric) ==
    <<"route", " ", interface, " ", network, " ", netmask, " ", gateway,
      " ", metric, "\n">>

LineSet ==
    { RouteLine("inside", "10.1.1.0", "255.255.255.0", "10.1.1.1", "1"),
      \* a host route, indented, tab-separated, with trailing blanks
      <<" ", " ", "route", "\t", "outside", " ", "10.2.2.2", " ", " ",
        "255.255.255.255", " ", "10.1.1.1", "\t", "20", " ", "\n">>,
      RouteLine("inside", "10.3.3.0", "255.255.255.0", "10.9.9.9", "1"),
      RouteLine("dmz", "10.3.3.0", "255.255.255.0", "10.1.1.1", "5"),
      \* a metric that is no integer
      RouteLine("inside", "10.1.1.0", "255.255.255.0", "10.1.1.1", "one"),
      \* seven words
      <<"route", " ", "inside", " ", "10.1.1.0", " ", "255.255.255.0", " ",
        "10.1.1.1", " ", "1", " ", "track", "\n">>,
      \* six words, the first of which is not the keyword
      <<"ipv6", " ", "route", " ", "inside", " ", "10.1.1.0", " ",
        "255.255.255.0", " ", "10.1.1.1", "\n">>,
      \* five words, and no newline: the last line of a file
      <<"route", " ", "inside", " ", "10.1.1.0", " ", "255.255.255.0", " ",
        "10.1.1.1">> }

RECURSIVE SeqsUpTo(_, _)
SeqsUpTo(S, n) ==
    IF n = 0 THEN {<<>>}
    ELSE LET shorter == SeqsUpTo(S, n - 1)
         IN  shorter \cup {Append(f, x) : f \in shorter, x \in S}

Files == SeqsUpTo(LineSet, MaxLines)

Obj(name, id, type, value) ==
    [name |-> name, id |-> id, type |-> type, value |-> value]

\* what GET .../object/networks answers: an error, or its items
NetListing ==
    [ok |-> TRUE,
     items |-> << Obj("obj-10.1.1.0", "N1", "Network", "10.1.1.0/24"),
                  [id |-> "N0", type |-> "Network", value |-> "10.9.9.0/24"],
                  Obj("obj-10.2.2.2", "N2", "Network", "10.2.2.2/32"),
                  Obj("obj-10.3.3.0", "N3", "Network", "10.3.3.0/24") >>]

NetResponses ==
    { [ok |-> FALSE, items |-> <<>>],
      NetListing,
      [ok |-> TRUE,
       items |-> << Obj("net-101", "N1", "Network", "10.1.1.0"),
                    Obj("obj-10.2.2.2", "N2", "Network", "10.2.2.2/32") >>] }

\* what GET .../object/hosts answers: an error, or its items
HostListing ==
    [ok |-> TRUE,
     items |-> << Obj("obj-10.1.1.1", "H1", "Host", "10.1.1.1"),
                  Obj("obj-10.2.2.2", "H2", "Host", "10.2.2.2"),
                  Obj("obj-10.1.1.0", "H3", "Host", "10.1.1.0") >>]

HostResponses ==
    { [ok |-> FALSE, items |-> <<>>],
      HostListing,
      [ok |-> TRUE,
       items |-> << Obj("obj-10.1.1.1", "H1", "Host", "10.1.1.1"),
                    Obj("obj-10.1.1.0", "H3", "Host", "10.1.1.0") >>],
      [ok |-> TRUE,
       items |-> << Obj("gw-111", "H1", "Host", "10.1.1.1") >>] }

\* what GET .../devices/devicerecords answers
DeviceResponses ==
    { [ok |-> FALSE, items |-> <<>>],
      [ok |-> TRUE, items |-> << [name |-> "FTD_OTHER", id |-> "D2"] >>],
      [ok |-> TRUE, items |-> << [name |-> "FTD_OTHER", id |-> "D2"],
                                 [name |-> DEVICE_NAME, id |-> "D1"] >>] }

Answers == {"yes", "YES", "no", "y"}

\* how a request ends: a 2xx response, a non-2xx response (raise_for_status)
\* or a transport error; the last two are RequestExceptions
Outcomes == {"2xx", "non-2xx", "transport-error"}

(***************************************************************************)
(* FMCRouteConverter: the object caches and the lookup.                    *)
(***************************************************************************)
\* cache[key] = obj
Put(cache, key, obj) ==
    [k \in DOMAIN cache \cup {key} |-> IF k = key THEN obj ELSE cache[k]]

EmptyCache == [k \in {} |-> NoObject]

\* the loop `for obj in items: if 'name' in obj: cache[obj['name']] = obj`
RECURSIVE IndexByName(_, _)
IndexByName(cache, items) ==
    IF items = <<>> THEN cache
    ELSE LET obj == Head(items)
         IN  IndexByName(IF "name" \in DOMAIN obj
                         THEN Put(cache, obj.name, obj)
                         ELSE cache,
                         Tail(items))

IsHostMaskOnly(mask) == mask = HOST_MASK

\* `is_host = mask == '255.255.255.255' or mask is None`
IsHost(mask) == mask = HOST_MASK \/ mask = None

Cache(self, mask) ==
    IF IsHost(mask) THEN self.host_objects ELSE self.network_objects

CacheKey(value, mask) == IF IsHost(mask) THEN "obj-" \o value ELSE ("obj-" \o value)

find_or_create_object(self, value, mask) ==
    LET cache == Cache(self, mask)
        cache_key == CacheKey(value, mask)
    IN  IF cache_key \in DOMAIN cache THEN cache[cache_key] ELSE NoObject

(***************************************************************************)
(* parse_and_prepare_routes: one iteration of `for line in f`.             *)
(***************************************************************************)
RecognisedAtLeastSix(parts) == Len(parts) >= 6 /\ parts[1] = ROUTES_KEYWORD

\* `if len(parts) == 6 and parts[0] == 'route'`
Recognised(parts) == Len(parts) = 6 /\ parts[1] = ROUTES_KEYWORD

Intent(parts) ==
    [interface |-> parts[2], network |-> parts[3], netmask |-> parts[4],
     gateway |-> parts[5], metric |-> IntOf(parts[6])]

Ref(obj) == [type |-> obj.type, id |-> obj.id, name |-> obj.name]

Route(interface, net_obj, gw_obj, metric) ==
    [interfaceName |-> interface,
     selectedNetworks |-> << Ref(net_obj) >>,
     gateway |-> [object |-> Ref(gw_obj)],
     metricValue |-> metric,
     type |-> "IPv4StaticRoute",
     isTunneled |-> FALSE]

\* what one route line adds to missing_objects: the gateway is looked up
\* first, and the network only when the gateway was found
MissingOfBoth(self, intent) ==
    (IF find_or_create_object(self, intent.gateway, None) = NoObject
     THEN {GatewayDescriptor(intent.gateway)} ELSE {})
    \cup
    (IF find_or_create_object(self, intent.network, intent.netmask) = NoObject
     THEN {NetworkDescriptor(intent.network, intent.netmask)} ELSE {})

MissingOf(self, intent) ==
    IF find_or_create_object(self, intent.gateway, None) = NoObject
    THEN {GatewayDescriptor(intent.gateway)}
    ELSE IF find_or_create_object(self, intent.network, intent.netmask) = NoObject
         THEN {NetworkDescriptor(intent.network, intent.netmask)}
         ELSE {}

Lookup(self, value, mask) ==
    [value |-> value, mask |-> mask, obj |-> find_or_create_object(self, value, mask)]

\* the calls of find_or_create_object one route line makes
LookupsOf(self, intent) ==
    IF find_or_create_object(self, intent.gateway, None) = NoObject
    THEN << Lookup(self, intent.gateway, None) >>
    ELSE << Lookup(self, intent.gateway, None),
            Lookup(self, intent.network, intent.netmask) >>

AddRouteFirst(routes, route) == <<route>> \o routes

\* routes.append(route)
AddRoute(routes, route) == Append(routes, route)

\* The state of the scan: the locals routes and missing_objects, the
\* exception that ended it (None while there is none); intents and lookups
\* record the locals of every recognised line and the lookups made.
ScanStart ==
    [routes |-> <<>>, missing_objects |-> {}, uncaught |-> None,
     intents |-> <<>>, lookups |-> <<>>]

ScanStep(self, scan, line) ==
    LET parts == Split(Strip(line))
    IN  IF ~Recognised(parts) THEN scan
        ELSE IF ~ParsesAsInt(parts[6])
        THEN [scan EXCEPT !.uncaught = "ValueError"]
        ELSE LET intent == Intent(parts)
                 missing == MissingOf(self, intent)
                 gw_obj == find_or_create_object(self, intent.gateway, None)
                 net_obj == find_or_create_object(self, intent.network,
                                                  intent.netmask)
             IN  [scan EXCEPT
                    !.intents = Append(@, intent),
                    !.lookups = @ \o LookupsOf(self, intent),
                    !.missing_objects = @ \cup missing,
                    !.routes = IF missing = {}
                               THEN AddRoute(@, Route(intent.interface, net_obj,
                                                      gw_obj, intent.metric))
                               ELSE @]

RECURSIVE ScanAll(_, _, _)
\* the whole loop `for line in f`, from the state scan on
ScanAll(self, scan, lines) ==
    IF lines = <<>> \/ scan.uncaught # None THEN scan
    ELSE ScanAll(self, ScanStep(self, scan, Head(lines)), Tail(lines))

RejectedOnlyIfNoRoute(scan) == scan.missing_objects # {} /\ scan.routes = <<>>

\* `if missing_objects:` after the loop
Rejected(scan) == scan.missing_objects # {}

(***************************************************************************)
(* main and deploy_routes: the tests they make.                            *)
(***************************************************************************)
DeclinedInverted(answer) == Lower(answer) = "yes"

\* `if confirm.lower() != 'yes'`
Declined(answer) == Lower(answer) # "yes"

ShouldPauseZeroBased(i) == (i - 1) % PauseEvery = 0

\* `if i % 10 == 0`
ShouldPause(i) == i % PauseEvery = 0

AfterSubmitSwallowsError(result, i) ==
    [pc |-> "deploy", outcome |-> "running", i |-> i + 1]

\* where an iteration of deploy_routes leaves the run: the next iteration
\* after a 2xx response, sys.exit(1) after a RequestException
AfterSubmit(result, i) ==
    IF result = "2xx"
    THEN [pc |-> "deploy", outcome |-> "running", i |-> i + 1]
    ELSE [pc |-> "end", outcome |-> "exit 1", i |-> i]

\* the first device called name, as `for device in devices` finds it
RECURSIVE FindDevice(_, _)
FindDevice(devices, name) ==
    IF devices = <<>> THEN None
    ELSE IF Head(devices).name = name THEN Head(devices).id
    ELSE FindDevice(Tail(devices), name)

(***************************************************************************)
(* The run.  events is what the run does that the outside sees, in order:  *)
(* its HTTP requests, its prompt, its pauses and the reports it prints.    *)
(***************************************************************************)
VARIABLES
    pc,             \* where main is
    outcome,        \* "running", or how the run ended
    self,           \* the FMCRouteConverter
    file,           \* the lines of ROUTES_FILE
    lineNo,         \* lines of the file read so far
    scan,           \* the locals of parse_and_prepare_routes
    routes,         \* main's routes, once parse_and_prepare_routes returned
    net_response,   \* what the network listing answered
    host_response,  \* what the host listing answered
    confirm,        \* the operator's answer
    i,              \* deploy_routes' loop index
    events

vars == <<pc, outcome, self, file, lineNo, scan, routes, net_response,
          host_response, confirm, i, events>>

Ev(kind, index, total, body) ==
    [kind |-> kind, i |-> index, total |-> total, body |-> body]

NoResponse == [ok |-> FALSE, items |-> <<>>]

\* FMCRouteConverter.__init__
NewConverter ==
    [headers |-> None, domain_uuid |-> None, device_id |-> None,
     network_objects |-> EmptyCache, host_objects |-> EmptyCache]

Init ==
    /\ pc = "login"
    /\ outcome = "running"
    /\ self = NewConverter
    /\ file \in Files
    /\ lineNo = 0
    /\ scan = ScanStart
    /\ routes = <<>>
    /\ net_response = NoResponse
    /\ host_response = NoResponse
    /\ confirm = None
    /\ i = 0
    /\ events = <<>>

\* login()
Login ==
    /\ pc = "login"
    /\ \E result \in Outcomes :
         /\ events' = Append(events, Ev("POST generatetoken", 0, 0, <<>>))
         /\ IF result = "2xx"
            THEN /\ self' = [self EXCEPT !.headers = "token",
                                         !.domain_uuid = "domain-1"]
                 /\ pc' = "get_device_id"
                 /\ outcome' = outcome
            ELSE /\ self' = self
                 /\ pc' = "end"
                 /\ outcome' = "exit 1"
    /\ UNCHANGED <<file, lineNo, scan, routes, net_response, host_response,
                   confirm, i>>

\* get_device_id(DEVICE_NAME)
GetDeviceId ==
    /\ pc = "get_device_id"
    /\ \E response \in DeviceResponses :
         LET id == FindDevice(response.items, DEVICE_NAME)
         IN  /\ events' = Append(events, Ev("GET devicerecords", 0, 0, <<>>))
             /\ IF response.ok /\ id # None
                THEN /\ self' = [self EXCEPT !.device_id = id]
                     /\ pc' = "get_existing_objects"
                     /\ outcome' = outcome
                ELSE /\ self' = self
                     /\ pc' = "end"
                     /\ outcome' = "exit 1"
    /\ UNCHANGED <<file, lineNo, scan, routes, net_response, host_response,
                   confirm, i>>

\* get_existing_objects(): a listing that fails is reported and leaves its
\* cache as it was
GetExistingObjects ==
    /\ pc = "get_existing_objects"
    /\ \E nets \in NetResponses, hosts \in HostResponses :
         /\ net_response' = nets
         /\ host_response' = hosts
         /\ self' = [self EXCEPT
                       !.network_objects =
                           IF nets.ok THEN IndexByName(@, nets.items) ELSE @,
                       !.host_objects =
                           IF hosts.ok THEN IndexByName(@, hosts.items) ELSE @]
    /\ events' = events \o << Ev("GET networks", 0, 0, <<>>),
                              Ev("GET hosts", 0, 0, <<>>) >>
    /\ pc' = "parse"
    /\ UNCHANGED <<outcome, file, lineNo, scan, routes, confirm, i>>

\* parse_and_prepare_routes: one iteration of `for line in f`; the
\* ValueError of int() is caught nowhere and ends the run
ScanLine ==
    /\ pc = "parse"
    /\ lineNo < Len(file)
    /\ lineNo' = lineNo + 1
    /\ scan' = ScanStep(self, scan, file[lineNo + 1])
    /\ IF scan'.uncaught # None
       THEN pc' = "end" /\ outcome' = scan'.uncaught
       ELSE pc' = pc /\ outcome' = outcome
    /\ UNCHANGED <<self, file, routes, net_response, host_response, confirm,
                   i, events>>

\* parse_and_prepare_routes after the loop: the report and sys.exit(1), or
\* the return of routes to main
EndScan ==
    /\ pc = "parse"
    /\ lineNo = Len(file)
    /\ IF Rejected(scan)
       THEN /\ events' = Append(events, Ev("missing objects", 0, 0,
                                           Sorted(scan.missing_objects)))
            /\ pc' = "end"
            /\ outcome' = "exit 1"
            /\ routes' = routes
       ELSE /\ events' = events
            /\ pc' = "confirm"
            /\ outcome' = outcome
            /\ routes' = scan.routes
    /\ UNCHANGED <<self, file, lineNo, scan, net_response, host_response,
                   confirm, i>>

\* main: the prompt and the test of the answer
Confirm ==
    /\ pc = "confirm"
    /\ \E answer \in Answers :
         /\ confirm' = answer
         /\ IF Declined(answer)
            THEN pc' = "end" /\ outcome' = "exit 0" /\ i' = i
            ELSE pc' = "deploy" /\ outcome' = outcome /\ i' = 1
    /\ events' = Append(events, Ev("prompt", 0, Len(routes), <<>>))
    /\ UNCHANGED <<self, file, lineNo, scan, routes, net_response,
                   host_response>>

\* deploy_routes: one iteration of `for i, route in enumerate(routes, 1)`
Submit ==
    /\ pc = "deploy"
    /\ i <= Len(routes)
    /\ \E result \in Outcomes :
         LET total == Len(routes)
             route == routes[i]
             after == AfterSubmit(result, i)
         IN  /\ events' = events
                   \o << Ev("POST ipv4staticroutes", i, total, <<route>>) >>
                   \o (IF result = "2xx"
                       THEN << Ev("progress", i, total, <<>>) >>
                            \o (IF ShouldPause(i)
                                THEN << Ev("sleep", i, total, <<>>) >>
                                ELSE <<>>)
                       ELSE << Ev("failed route details", i, total, <<route>>) >>)
             /\ pc' = after.pc
             /\ outcome' = after.outcome
             /\ i' = after.i
    /\ UNCHANGED <<self, file, lineNo, scan, routes, net_response,
                   host_response, confirm>>

\* deploy_routes returns and main ends
Complete ==
    /\ pc = "deploy"
    /\ i > Len(routes)
    /\ pc' = "end"
    /\ outcome' = "complete"
    /\ UNCHANGED <<self, file, lineNo, scan, routes, net_response,
                   host_response, confirm, i, events>>

Next ==
    \/ Login
    \/ GetDeviceId
    \/ GetExistingObjects
    \/ ScanLine
    \/ EndScan
    \/ Confirm
    \/ Submit
    \/ Complete

Spec == Init /\ [][Next]_vars

(***************************************************************************)
(* deploy_routes on longer files: the run from the call of deploy_routes,  *)
(* after a login, a device lookup, both listings, the scan of a file of    *)
(* up to MaxRoutes route lines that all resolve, and the answer yes.       *)
(***************************************************************************)
ResolvingLines ==
    << RouteLine("inside", "10.1.1.0", "255.255.255.0", "10.1.1.1", "1"),
       RouteLine("outside", "10.2.2.2", "255.255.255.255", "10.1.1.1", "20"),
       RouteLine("dmz", "10.3.3.0", "255.255.255.0", "10.1.1.1", "5") >>

\* the file of n lines that repeats ResolvingLines from its line first on
LongFile(n, first) ==
    [k \in 1..n |-> ResolvingLines[((k + first - 2) % Len(ResolvingLines)) + 1]]

LoadedConverter ==
    [headers |-> "token", domain_uuid |-> "domain-1", device_id |-> "D1",
     network_objects |-> IndexByName(EmptyCache, NetListing.items),
     host_objects |-> IndexByName(EmptyCache, HostListing.items)]

InitDeploy ==
    /\ pc = "deploy"
    /\ outcome = "running"
    /\ self = LoadedConverter
    /\ \E n \in 0..MaxRoutes, first \in 1..Len(ResolvingLines) :
         file = LongFile(n, first)
    /\ lineNo = Len(file)
    /\ scan = ScanAll(self, ScanStart, file)
    /\ routes = scan.routes
    /\ net_response = NetListing
    /\ host_response = HostListing
    /\ confirm = "yes"
    /\ i = 1
    /\ events = << Ev("POST generatetoken", 0, 0, <<>>),
                   Ev("GET devicerecords", 0, 0, <<>>),
                   Ev("GET networks", 0, 0, <<>>),
                   Ev("GET hosts", 0, 0, <<>>),
                   Ev("prompt", 0, Len(routes), <<>>) >>

NextDeploy ==
    \/ Submit
    \/ Complete

SpecDeploy == InitDeploy /\ [][NextDeploy]_vars

(***************************************************************************)
(* The vocabulary of the properties, stated on the file, the caches and    *)
(* the events rather than with the operators of the run.                   *)
(***************************************************************************)
\* the whitespace-separated tokens of a line
Tokens(line) ==
    LET NotBlank(piece) == piece \notin {" ", "\t", "\n"}
    IN  SelectSeq(line, NotBlank)

SixTokenRoute(line) == Len(Tokens(line)) = 6 /\ Tokens(line)[1] = "route"

IntegerMetric(line) == Tokens(line)[6] \in {"1", "5", "20"}

RouteLines(lines) == SelectSeq(lines, SixTokenRoute)

\* the name under which the caches hold the object of an address
NameOf(address) == "obj-" \o address

\* the partition the netmask of a line selects
PartitionOf(netmask) ==
    IF netmask = "255.255.255.255" \/ netmask = None
    THEN self.host_objects
    ELSE self.network_objects

GatewayAbsent(line) == NameOf(Tokens(line)[5]) \notin DOMAIN self.host_objects

NetworkAbsent(line) ==
    NameOf(Tokens(line)[3]) \notin DOMAIN PartitionOf(Tokens(line)[4])

CatalogLoaded == pc \notin {"login", "get_device_id", "get_existing_objects"}

EventsOf(kind) == LET Is(e) == e.kind = kind IN SelectSeq(events, Is)

Posts == EventsOf("POST ipv4staticroutes")

Range(f) == {f[x] : x \in DOMAIN f}

(***************************************************************************)
(* C1.  All-or-nothing batch: when some six-token route line of the file   *)
(* has a gateway or a network that the catalog does not resolve,           *)
(* parse_and_prepare_routes returns no routes to main (main never reaches  *)
(* the prompt or deploy_routes, and never ends in success) and no route    *)
(* submission is ever sent, whatever the other lines resolve to.           *)
(***************************************************************************)
C1_AllOrNothing ==
    (/\ CatalogLoaded
     /\ \E k \in 1..Len(file) :
          SixTokenRoute(file[k]) /\ (GatewayAbsent(file[k]) \/ NetworkAbsent(file[k])))
    => /\ pc \notin {"confirm", "deploy"}
       /\ outcome \notin {"complete", "exit 0"}
       /\ routes = <<>>
       /\ Posts = <<>>

\* a rejected batch in which another line had resolved cleanly
C1_Witness ==
    /\ pc = "end"
    /\ outcome = "exit 1"
    /\ lineNo = Len(file)
    /\ scan.missing_objects # {}
    /\ scan.routes # <<>>

(***************************************************************************)
(* C2.  Fail-fast without rollback: when submission k fails, it is the     *)
(* last thing the run sends: submissions 1..k have each been sent once,    *)
(* in order, with the payloads routes[1..k]; nothing follows the report of *)
(* the failing payload (no further submission, no other request such as a  *)
(* delete); and the run has ended with exit status 1.                      *)
(***************************************************************************)
C2_FailFast ==
    \A e \in 1..Len(events) :
        events[e].kind = "failed route details" =>
            LET k == events[e].i
            IN  /\ e = Len(events)
                /\ pc = "end"
                /\ outcome = "exit 1"
                /\ k \in 1..Len(routes)
                /\ Len(Posts) = k
                /\ \A j \in 1..k : Posts[j].i = j /\ Posts[j].body = <<routes[j]>>
                /\ \A d \in 1..Len(events) :
                       events[d].kind \in
                           {"POST generatetoken", "GET devicerecords",
                            "GET networks", "GET hosts", "prompt",
                            "POST ipv4staticroutes", "progress", "sleep",
                            "failed route details"}

\* submission 12 of 20 fails: eleven routes stay applied, eight are not sent
C2_Witness ==
    /\ outcome = "exit 1"
    /\ Len(routes) = 20
    /\ i = 12
    /\ Len(Posts) = 12
    /\ Len(EventsOf("progress")) = 11

(***************************************************************************)
(* C3.  Deployment order equals input order: the submissions sent are,     *)
(* one per six-token route line and in the order of those lines in the     *)
(* file, the payloads of those lines; the index of submission j and of its *)
(* progress diagnostic is j; a run that completes has sent one submission  *)
(* for every such line.                                                    *)
(***************************************************************************)
C3_PayloadOf(line, route) ==
    /\ route.interfaceName = Tokens(line)[2]
    /\ route.selectedNetworks[1].name = NameOf(Tokens(line)[3])
    /\ route.gateway.object.name = NameOf(Tokens(line)[5])
    /\ route.metricValue = IntOf(Tokens(line)[6])

\* C3: the submissions are the payloads of the route lines, in file order
C3_InputOrder ==
    LET lines == RouteLines(file)
        progress == EventsOf("progress")
    IN  /\ Len(Posts) <= Len(lines)
        /\ \A j \in 1..Len(Posts) :
              /\ Posts[j].i = j
              /\ Posts[j].total = Len(lines)
              /\ C3_PayloadOf(lines[j], Posts[j].body[1])
        /\ \A j \in 1..Len(progress) : progress[j].i = j
        /\ outcome = "complete" => Len(Posts) = Len(lines) /\ Len(progress) = Len(lines)

\* three different routes, deployed to the end
C3_Witness ==
    /\ outcome = "complete"
    /\ Len(Posts) = 3
    /\ Posts[1].body # Posts[2].body
    /\ Posts[2].body # Posts[3].body
    /\ Posts[1].body # Posts[3].body

(***************************************************************************)
(* C4.  Resolution is by address value: a lookup of address v hits iff the *)
(* listing of its partition holds an object whose value is v, whatever its *)
(* name; and the line `route inside 10.1.1.0 255.255.255.0 10.1.1.1 1`,    *)
(* with network net-101 (N1, value 10.1.1.0) and host gw-111 (H1, value    *)
(* 10.1.1.1) listed, yields the payload of the example.                    *)
(***************************************************************************)
C4_Listing(mask) ==
    LET response == IF mask = "255.255.255.255" \/ mask = None
                    THEN host_response ELSE net_response
    IN  IF response.ok THEN response.items ELSE <<>>

C4_ExamplePayload ==
    [interfaceName |-> "inside",
     selectedNetworks |-> << [type |-> "Network", id |-> "N1", name |-> "net-101"] >>,
     gateway |-> [object |-> [type |-> "Host", id |-> "H1", name |-> "gw-111"]],
     metricValue |-> 1,
     type |-> "IPv4StaticRoute",
     isTunneled |-> FALSE]

\* C4: lookups hit by address value, and the example payload is built
C4_ResolvedByValue ==
    /\ \A k \in 1..Len(scan.lookups) :
          LET l == scan.lookups[k]
              listing == C4_Listing(l.mask)
          IN  /\ (l.obj # NoObject) <=>
                     (\E n \in 1..Len(listing) : listing[n].value = l.value)
              /\ l.obj # NoObject => l.obj.value = l.value
    /\ (/\ file = << RouteLine("inside", "10.1.1.0", "255.255.255.0", "10.1.1.1", "1") >>
        /\ lineNo = 1
        /\ net_response.ok
        /\ \E n \in 1..Len(net_response.items) :
               net_response.items[n] = Obj("net-101", "N1", "Network", "10.1.1.0")
        /\ host_response.ok
        /\ \E n \in 1..Len(host_response.items) :
               host_response.items[n] = Obj("gw-111", "H1", "Host", "10.1.1.1"))
       => scan.routes = << C4_ExamplePayload >>

(***************************************************************************)
(* C5.  Permissive parsing of the metric: a six-token route line whose     *)
(* sixth token is no integer raises no error and the scan goes on.         *)
(***************************************************************************)
C5_NonIntegerMetricSkipped ==
    (\E k \in 1..lineNo : SixTokenRoute(file[k]) /\ ~IntegerMetric(file[k]))
    => /\ outcome # "ValueError"
       /\ pc # "end" \/ lineNo = Len(file)

(***************************************************************************)
(* C6 as stated.  The report holds `Gateway: g` for every route line whose *)
(* gateway is absent and `Network: n/m` for every route line whose network *)
(* is absent, a line on which both are absent included.                    *)
(***************************************************************************)
C6_Original ==
    \A e \in 1..Len(events) :
        events[e].kind = "missing objects" =>
            \A k \in 1..Len(file) :
                SixTokenRoute(file[k]) =>
                    /\ GatewayAbsent(file[k]) =>
                          GatewayDescriptor(Tokens(file[k])[5]) \in Range(events[e].body)
                    /\ NetworkAbsent(file[k]) =>
                          NetworkDescriptor(Tokens(file[k])[3], Tokens(file[k])[4])
                              \in Range(events[e].body)

(***************************************************************************)
(* C6 amended.  The report is made only after the last line was scanned,   *)
(* and ends the run with status 1.  It holds exactly: `Gateway: g` for     *)
(* every route line whose gateway is absent, and `Network: n/m` for every  *)
(* route line whose gateway is present and whose network is absent (a line *)
(* on which both are absent contributes its gateway only); each descriptor *)
(* once, in sorted order.                                                  *)
(***************************************************************************)
C6_Expected ==
    {GatewayDescriptor(Tokens(file[k])[5]) :
        k \in {n \in 1..Len(file) : SixTokenRoute(file[n]) /\ GatewayAbsent(file[n])}}
    \cup
    {NetworkDescriptor(Tokens(file[k])[3], Tokens(file[k])[4]) :
        k \in {n \in 1..Len(file) :
                 /\ SixTokenRoute(file[n])
                 /\ ~GatewayAbsent(file[n])
                 /\ NetworkAbsent(file[n])}}

C6_Rank(d) == CHOOSE k \in 1..Len(DescriptorOrder) : DescriptorOrder[k] = d

\* C6, amended: the report is complete up to the first miss of each line
C6_Aggregation ==
    \A e \in 1..Len(events) :
        events[e].kind = "missing objects" =>
            LET report == events[e].body
            IN  /\ lineNo = Len(file)
                /\ e = Len(events)
                /\ pc = "end" /\ outcome = "exit 1"
                /\ Range(report) = C6_Expected
                /\ report # <<>>
                /\ \A a, b \in 1..Len(report) :
                      a < b => C6_Rank(report[a]) < C6_Rank(report[b])

\* a report of two descriptors after a line with both references absent
C6_Witness ==
    /\ EventsOf("missing objects") # <<>>
    /\ Len(events[Len(events)].body) >= 2
    /\ \E k \in 1..Len(file) :
          SixTokenRoute(file[k]) /\ GatewayAbsent(file[k]) /\ NetworkAbsent(file[k])

(***************************************************************************)
(* C7.  Partition selection: every lookup made with the netmask            *)
(* 255.255.255.255 or with no netmask is answered from the host cache, and *)
(* every lookup made with another netmask from the network cache; what the *)
(* other cache holds under the same name does not count.  The gateway of   *)
(* every route line is looked up with no netmask, so the gateway of every  *)
(* prepared route is an object of the host cache.                          *)
(***************************************************************************)
C7_PartitionSelection ==
    /\ \A k \in 1..Len(scan.lookups) :
          LET l == scan.lookups[k]
              partition == PartitionOf(l.mask)
          IN  l.obj = IF NameOf(l.value) \in DOMAIN partition
                      THEN partition[NameOf(l.value)]
                      ELSE NoObject
    /\ \A r \in 1..Len(scan.routes) :
          \E o \in Range(self.host_objects) :
              scan.routes[r].gateway.object = [type |-> o.type, id |-> o.id, name |-> o.name]

\* a network lookup that misses although the host cache holds the name, and
\* a host-mask lookup that misses although the network cache holds the name
C7_Witness ==
    /\ \E k \in 1..Len(scan.lookups) :
          /\ scan.lookups[k].mask = "255.255.255.0"
          /\ scan.lookups[k].obj = NoObject
          /\ NameOf(scan.lookups[k].value) \in DOMAIN self.host_objects
    /\ \E k \in 1..Len(scan.lookups) :
          /\ scan.lookups[k].mask = "255.255.255.255"
          /\ scan.lookups[k].obj = NoObject
          /\ NameOf(scan.lookups[k].value) \in DOMAIN self.network_objects
    /\ \E k \in 1..Len(scan.lookups) :
          /\ scan.lookups[k].mask = None
          /\ scan.lookups[k].obj # NoObject

(***************************************************************************)
(* C8.  Line recognition: reading a line that has six tokens, the first of *)
(* them `route`, and an integer sixth token adds exactly one intent, whose *)
(* interface, network, netmask, gateway and metric are tokens 2..6;        *)
(* reading a line that has another number of tokens or another first token *)
(* adds no intent, is no error, and leaves the routes and the missing set  *)
(* as they were.                                                           *)
(***************************************************************************)
C8_ReadLine ==
    lineNo' = lineNo + 1 =>
        LET line == file[lineNo + 1]
            t == Tokens(line)
        IN  /\ (SixTokenRoute(line) /\ IntegerMetric(line)) =>
                  scan'.intents =
                      Append(scan.intents,
                             [interface |-> t[2], network |-> t[3],
                              netmask |-> t[4], gateway |-> t[5],
                              metric |-> IntOf(t[6])])
            /\ ~SixTokenRoute(line) =>
                  /\ scan'.intents = scan.intents
                  /\ scan'.routes = scan.routes
                  /\ scan'.missing_objects = scan.missing_objects
                  /\ scan'.uncaught = None
                  /\ pc' = pc /\ outcome' = outcome

\* C8: every step that reads a line reads it as C8_ReadLine says
C8_LineRecognition == [][C8_ReadLine]_vars

\* one intent from three lines: a seven-token line and a six-token line
\* that does not start with the keyword yielded nothing
C8_Witness ==
    /\ lineNo = 3
    /\ Len(scan.intents) = 1
    /\ scan.intents[1].interface = "outside"
    /\ scan.intents[1].metric = 20
    /\ \E k \in 1..3 : Len(Tokens(file[k])) = 7
    /\ \E k \in 1..3 : Len(Tokens(file[k])) = 6 /\ Tokens(file[k])[1] # "route"

(***************************************************************************)
(* C9.  Confirmation gate: every route submission comes after the prompt,  *)
(* and only when the operator answered yes; the prompt comes after the     *)
(* login, the device lookup, both listings and the scan of the whole file; *)
(* an operator who declines ends the run with status 0 and no submission.  *)
(***************************************************************************)
C9_Affirmative == confirm \in {"yes", "YES", "Yes"}

\* C9: no submission without a prompt answered yes
C9_ConfirmationGate ==
    /\ \A e \in 1..Len(events) :
          events[e].kind = "POST ipv4staticroutes" =>
              /\ C9_Affirmative
              /\ \E d \in 1..(e - 1) : events[d].kind = "prompt"
    /\ \A e \in 1..Len(events) :
          events[e].kind = "prompt" =>
              /\ e = 5
              /\ [k \in 1..4 |-> events[k].kind] =
                     <<"POST generatetoken", "GET devicerecords",
                       "GET networks", "GET hosts">>
              /\ lineNo = Len(file)
              /\ confirm # None
    /\ (confirm # None /\ ~C9_Affirmative) =>
          /\ pc = "end"
          /\ outcome = "exit 0"
          /\ Posts = <<>>

\* the operator declines a batch of prepared routes
C9_Witness ==
    /\ confirm = "no"
    /\ routes # <<>>
    /\ outcome = "exit 0"

(***************************************************************************)
(* C10.  Pacing: a pause follows submission i exactly when i is a multiple *)
(* of 10 and the submission succeeded, right after its progress diagnostic *)
(* and before the next submission; every successful submission is followed *)
(* by its progress diagnostic i/total; a deployment of total routes that   *)
(* completes has made total \div 10 pauses.                                *)
(***************************************************************************)
C10_Pacing ==
    /\ \A e \in 1..Len(events) :
          /\ events[e].kind = "sleep" =>
                /\ e > 1
                /\ events[e - 1].kind = "progress"
                /\ events[e - 1].i = events[e].i
                /\ events[e].i % 10 = 0
          /\ events[e].kind = "progress" =>
                /\ e > 1
                /\ events[e - 1].kind = "POST ipv4staticroutes"
                /\ events[e - 1].i = events[e].i
                /\ events[e].total = Len(routes)
                /\ events[e].i % 10 = 0 =>
                      e < Len(events) /\ events[e + 1].kind = "sleep"
          /\ events[e].kind = "POST ipv4staticroutes" =>
                /\ e < Len(events)
                /\ events[e + 1].kind \in {"progress", "failed route details"}
    /\ outcome = "complete" =>
          /\ Len(EventsOf("sleep")) = Len(routes) \div 10
          /\ Len(EventsOf("progress")) = Len(routes)
          /\ \A n \in 1..Len(EventsOf("sleep")) : EventsOf("sleep")[n].i = 10 * n

\* twenty-one routes deployed with two pauses, after the 10th and the 20th
C10_Witness ==
    /\ outcome = "complete"
    /\ Len(routes) = 21
    /\ Len(EventsOf("sleep")) = 2

=============================================================================
